---- MODULE Spec2Model ----
(***************************************************************************)
(* Payment-coverage reconciliation of Sistema-Mensualidades.               *)
(*                                                                         *)
(* Money is counted in whole cents (integers), so round(x, 2) leaves every *)
(* amount unchanged.  A datetime is a number of hours since an epoch; a    *)
(* nullable column is the empty sequence (None) or a one-element sequence. *)
(* The database holds one course row and one student row (slots that are   *)
(* empty until curso_nuevo / cliente_nuevo fill them) and the student's    *)
(* payments in insertion order.                                            *)
(***************************************************************************)
EXTENDS Integers, Sequences, FiniteSets, TLC

VARIABLES now, curso, cliente, pagos, session, eng, reqs, clientes, sched

vars == <<now, curso, cliente, pagos, session, eng, reqs, clientes, sched>>

(***************************************************************************)
(* Bounds of the model                                                     *)
(***************************************************************************)
MaxPagos == 2
MaxMonto == 2
MaxHistorial == 2
MaxMontoMotor == 3
NumReqs == 2
MaxPagosConc == 1
MaxMeses == 2
NumEstudiantes == 2
MaxDias == 20
MaxManuales == 1

None == << >>
Some(x) == <<x>>

timedelta(days) == days * 24

Now0 == timedelta(40)

Max(a, b) == IF a >= b THEN a ELSE b
Min(a, b) == IF a <= b THEN a ELSE b

Conceptos == {"auto", "inscripcion", "mensualidad"}
Montos == 1..MaxMonto
PreciosMensuales == {2, 3}
PreciosInscripcion == {0, 2}
FechasInicio == {Now0 - timedelta(1), Now0 + timedelta(1)}
MesesFormulario == {0, 1}

(***************************************************************************)
(* Rows                                                                    *)
(***************************************************************************)
SinCurso == [existe |-> FALSE, precio_mensual |-> 0, precio_inscripcion |-> 0]

Curso(pm, pi) == [existe |-> TRUE, precio_mensual |-> pm, precio_inscripcion |-> pi]

SinCliente ==
    [existe |-> FALSE, curso_id |-> 0,
     abono_inscripcion |-> 0, mensualidades_canceladas |-> 0,
     carry_mensualidad |-> 0, fecha_inicio_clases |-> None, fecha_fin |-> None]

\* a Pago row; testing: notas LIKE '%testing%' (the payments of the test routes)
Pago(monto, concepto, fecha_pago, testing) ==
    [monto |-> monto, concepto |-> concepto,
     fecha_pago |-> fecha_pago, testing |-> testing]

\* cliente.curso: the relationship through curso_id
tiene_curso(c, cur) == c.curso_id # 0 /\ cur.existe

\* Cliente.inscripcion_pendiente
inscripcion_pendiente(c, cur) ==
    IF ~tiene_curso(c, cur) THEN 0
    ELSE Max(0, cur.precio_inscripcion - c.abono_inscripcion)

(***************************************************************************)
(* _recalcular_cobertura_cliente                                           *)
(***************************************************************************)
\* key=lambda p: p.fecha_pago or datetime.now()
ClavePago(p, t) == IF p.fecha_pago = None THEN t ELSE p.fecha_pago[1]

RECURSIVE Insertar(_, _, _)
Insertar(p, s, t) ==
    IF s = << >> THEN <<p>>
    ELSE IF ClavePago(Head(s), t) <= ClavePago(p, t)
         THEN <<Head(s)>> \o Insertar(p, Tail(s), t)
         ELSE <<p>> \o s

\* sorted(list(cliente.pagos), key=...): a stable sort
RECURSIVE sorted(_, _)
sorted(s, t) ==
    IF s = << >> THEN << >>
    ELSE Insertar(s[Len(s)], sorted(SubSeq(s, 1, Len(s) - 1), t), t)

Acc0 == [abono |-> 0, carry |-> 0, meses |-> 0]

\* mutant: the remainder is lost when a period completes
ExtraerMeses_sin_resto(acc, pm) ==
    LET meses_completos == acc.carry \div pm IN
    IF meses_completos > 0
    THEN [acc EXCEPT !.meses = @ + meses_completos, !.carry = 0]
    ELSE acc

\* mutant: a payment completes one period at most
ExtraerMeses_de_a_uno(acc, pm) ==
    IF acc.carry >= pm
    THEN [acc EXCEPT !.meses = @ + 1, !.carry = @ - pm]
    ELSE acc

\* carry // precio_mensual, and the remainder kept when a period completes
ExtraerMeses(acc, pm) ==
    LET meses_completos == acc.carry \div pm IN
    IF meses_completos > 0
    THEN [acc EXCEPT !.meses = @ + meses_completos,
                     !.carry = @ - meses_completos * pm]
    ELSE acc

\* mutant: the part that completed the enrollment is also credited to the carry
PagoAuto_sin_descontar(acc, monto, pm, pi) ==
    LET cubre == pi > 0 /\ acc.abono < pi
        falta == pi - acc.abono
        abono1 == IF ~cubre THEN acc.abono
                  ELSE IF monto >= falta THEN pi ELSE acc.abono + monto
        saldo1 == IF ~cubre THEN monto
                  ELSE IF monto >= falta THEN monto ELSE 0
        acc1 == [acc EXCEPT !.abono = abono1]
    IN IF saldo1 > 0
       THEN ExtraerMeses([acc1 EXCEPT !.carry = @ + saldo1], pm)
       ELSE acc1

\* mutant: an 'auto' payment overwrites the enrollment paid so far
PagoAuto_pisa_abono(acc, monto, pm, pi) ==
    LET abono1 == IF pi > 0 THEN Min(monto, pi) ELSE acc.abono
        saldo1 == IF pi > 0 THEN monto - abono1 ELSE monto
        acc1 == [acc EXCEPT !.abono = abono1]
    IN IF saldo1 > 0
       THEN ExtraerMeses([acc1 EXCEPT !.carry = @ + saldo1], pm)
       ELSE acc1

PagoAuto(acc, monto, pm, pi) ==
    LET cubre == pi > 0 /\ acc.abono < pi
        falta == pi - acc.abono
        abono1 == IF ~cubre THEN acc.abono
                  ELSE IF monto >= falta THEN pi ELSE acc.abono + monto
        saldo1 == IF ~cubre THEN monto
                  ELSE IF monto >= falta THEN monto - falta ELSE 0
        acc1 == [acc EXCEPT !.abono = abono1]
    IN IF saldo1 > 0
       THEN ExtraerMeses([acc1 EXCEPT !.carry = @ + saldo1], pm)
       ELSE acc1

\* mutant: the excess over the enrollment shortfall goes on to the periods
PagoInscripcion_con_excedente(acc, monto, pm, pi) ==
    LET falta == Max(0, pi - acc.abono)
        abono == Min(monto, falta)
    IN ExtraerMeses([acc EXCEPT !.abono = @ + abono, !.carry = @ + (monto - abono)], pm)

\* mutant: any enrollment payment marks the enrollment as fully paid
PagoInscripcion_paga_todo(acc, monto, pm, pi) ==
    IF pi > 0 THEN [acc EXCEPT !.abono = pi] ELSE acc

\* mutant: an enrollment payment is credited whole, beyond the fee
PagoInscripcion_sin_tope(acc, monto, pm, pi) ==
    IF pi > 0 THEN [acc EXCEPT !.abono = @ + monto] ELSE acc

PagoInscripcion(acc, monto, pm, pi) ==
    IF pi > 0
    THEN LET falta == Max(0, pi - acc.abono) IN
         IF falta > 0
         THEN [acc EXCEPT !.abono = @ + Min(monto, falta)]
         ELSE acc
    ELSE acc

\* mutant: a period payment pays the pending enrollment first
PagoMensualidad_como_auto(acc, monto, pm, pi) ==
    PagoAuto(acc, monto, pm, pi)

\* mutant: a period payment replaces the carry instead of adding to it
PagoMensualidad_pisa_carry(acc, monto, pm, pi) ==
    ExtraerMeses([acc EXCEPT !.carry = monto], pm)

PagoMensualidad(acc, monto, pm, pi) ==
    ExtraerMeses([acc EXCEPT !.carry = @ + monto], pm)

\* mutant: the loop does not skip the amounts that are not positive
AplicarPago_sin_filtro(acc, p, pm, pi) ==
    IF p.concepto = "auto" THEN PagoAuto(acc, p.monto, pm, pi)
    ELSE IF p.concepto = "inscripcion" THEN PagoInscripcion(acc, p.monto, pm, pi)
    ELSE IF p.concepto = "mensualidad" THEN PagoMensualidad(acc, p.monto, pm, pi)
    ELSE acc

\* one iteration of the loop over the sorted payments
AplicarPago(acc, p, pm, pi) ==
    IF p.monto <= 0 THEN acc
    ELSE IF p.concepto = "auto" THEN PagoAuto(acc, p.monto, pm, pi)
    ELSE IF p.concepto = "inscripcion" THEN PagoInscripcion(acc, p.monto, pm, pi)
    ELSE IF p.concepto = "mensualidad" THEN PagoMensualidad(acc, p.monto, pm, pi)
    ELSE acc

RECURSIVE ProcesarPagos(_, _, _, _)
ProcesarPagos(orden, acc, pm, pi) ==
    IF orden = << >> THEN acc
    ELSE ProcesarPagos(Tail(orden), AplicarPago(acc, Head(orden), pm, pi), pm, pi)

\* the three early returns of the function
SinCobertura(c, cur) ==
    \/ ~tiene_curso(c, cur)
    \/ cur.precio_mensual <= 0
    \/ c.fecha_inicio_clases = None

\* mutant: the early return forgets the carry
CoberturaCero_sin_carry(c) ==
    [c EXCEPT !.mensualidades_canceladas = 0, !.fecha_fin = None,
              !.abono_inscripcion = 0]

CoberturaCero(c) ==
    [c EXCEPT !.mensualidades_canceladas = 0, !.fecha_fin = None,
              !.abono_inscripcion = 0, !.carry_mensualidad = 0]

\* mutant: a positive carry extends the coverage by one more period
ActualizarCliente_carry_extiende(c, acc) ==
    [c EXCEPT !.abono_inscripcion = acc.abono,
              !.mensualidades_canceladas = acc.meses,
              !.carry_mensualidad = acc.carry,
              !.fecha_fin = IF acc.meses <= 0 /\ acc.carry <= 0
                            THEN c.fecha_inicio_clases
                            ELSE Some(c.fecha_inicio_clases[1]
                                        + timedelta((acc.meses + IF acc.carry > 0 THEN 1 ELSE 0) * 30))]

\* section 4 of the function: write the totals and fecha_fin to the student
ActualizarCliente(c, acc) ==
    [c EXCEPT !.abono_inscripcion = acc.abono,
              !.mensualidades_canceladas = acc.meses,
              !.carry_mensualidad = acc.carry,
              !.fecha_fin = IF acc.meses <= 0
                            THEN c.fecha_inicio_clases
                            ELSE Some(c.fecha_inicio_clases[1] + timedelta(acc.meses * 30))]

\* mutant: the accumulators start from the stored fields
recalcular_acumulando(c, cur, ps, t) ==
    IF SinCobertura(c, cur) THEN CoberturaCero(c)
    ELSE ActualizarCliente(c,
            ProcesarPagos(sorted(ps, t),
                          [abono |-> c.abono_inscripcion, carry |-> c.carry_mensualidad,
                           meses |-> c.mensualidades_canceladas],
                          cur.precio_mensual, cur.precio_inscripcion))

_recalcular_cobertura_cliente(c, cur, ps, t) ==
    IF SinCobertura(c, cur) THEN CoberturaCero(c)
    ELSE ActualizarCliente(c,
            ProcesarPagos(sorted(ps, t), Acc0, cur.precio_mensual, cur.precio_inscripcion))

(***************************************************************************)
(* The breakdown pago_nuevo computes inline from the stored fields before  *)
(* it inserts the payment (section 4 of the handler).  The desglose is a   *)
(* sequence of [tipo, monto] items.                                        *)
(***************************************************************************)
Item(tipo, monto) == [tipo |-> tipo, monto |-> monto]

DesgloseMensualidades(carry_antes, saldo, pm) ==
    LET carry_total == carry_antes + saldo
        meses_completos == carry_total \div pm
        carry_restante == carry_total % pm
    IN (IF meses_completos > 0 THEN <<Item("mensualidad", meses_completos * pm)>> ELSE << >>)
       \o (IF carry_restante > 0 THEN <<Item("carry", carry_restante)>> ELSE << >>)

DesglosePagoNuevo(monto, concepto, c, cur) ==
    LET pend == inscripcion_pendiente(c, cur)
        carry_antes == c.carry_mensualidad
        pm == cur.precio_mensual
    IN IF concepto = "auto"
       THEN LET saldo == IF pend > 0
                         THEN (IF monto >= pend THEN monto - pend ELSE 0)
                         ELSE monto
                ins == IF pend > 0
                       THEN <<Item("inscripcion", IF monto >= pend THEN pend ELSE monto)>>
                       ELSE << >>
            IN ins \o (IF saldo > 0 THEN DesgloseMensualidades(carry_antes, saldo, pm) ELSE << >>)
       ELSE IF concepto = "inscripcion"
       THEN IF pend > 0
            THEN <<Item("inscripcion", Min(monto, pend))>>
            ELSE <<Item("info", 0)>>
       ELSE DesgloseMensualidades(carry_antes, monto, pm)

(***************************************************************************)
(* Request handlers of app.py.  Each handler runs to its commit in one     *)
(* step; a handler that rejects its input changes nothing.                 *)
(***************************************************************************)
EngIdle == [pc |-> "idle", i |-> 0, orden |-> << >>, acc |-> Acc0]

NoReqs == << >>

\* the reminder scheduler before any job has run: sent and failed are the
\* notifications delivered and the attempts that failed, resumen the
\* counters of the last run
SchedIdle ==
    [corrido |-> FALSE, sent |-> {}, failed |-> {},
     resumen |-> [enviados |-> 0, errores |-> 0, saltados |-> 0]]

Quitar(ps, k) == SubSeq(ps, 1, k - 1) \o SubSeq(ps, k + 1, Len(ps))

NoTesting(ps) == SelectSeq(ps, LAMBDA p : ~p.testing)

Init ==
    /\ now = Now0
    /\ curso = SinCurso
    /\ cliente = SinCliente
    /\ pagos = << >>
    /\ session = None
    /\ eng = EngIdle
    /\ reqs = NoReqs
    /\ clientes = << >>
    /\ sched = SchedIdle

curso_nuevo(pm, pi) ==
    /\ ~curso.existe
    /\ curso' = IF pm <= 0 THEN curso ELSE Curso(pm, pi)
    /\ UNCHANGED <<now, cliente, pagos, session, eng, reqs, clientes, sched>>

curso_editar(pm, pi) ==
    /\ curso.existe
    /\ curso' = IF pm <= 0 THEN curso ELSE Curso(pm, pi)
    /\ UNCHANGED <<now, cliente, pagos, session, eng, reqs, clientes, sched>>

FechaFinFormulario(fi, m) ==
    IF m = 0 THEN Some(fi) ELSE Some(fi + timedelta(m * 30))

cliente_nuevo(fi, m) ==
    /\ ~cliente.existe
    /\ curso.existe
    /\ cliente' = [existe |-> TRUE, curso_id |-> 1,
                   abono_inscripcion |-> 0, mensualidades_canceladas |-> m,
                   carry_mensualidad |-> 0, fecha_inicio_clases |-> Some(fi),
                   fecha_fin |-> FechaFinFormulario(fi, m)]
    /\ UNCHANGED <<now, curso, pagos, session, eng, reqs, clientes, sched>>

\* fi_str: the form's fecha_inicio_clases (None when empty); m_form: the
\* form's mensualidades_canceladas (None when absent)
cliente_editar(fi_str, m_form) ==
    /\ cliente.existe
    /\ LET mensualidades == IF m_form = None THEN cliente.mensualidades_canceladas
                            ELSE m_form[1]
           c1 == IF fi_str # None /\ cliente.fecha_inicio_clases # fi_str
                 THEN [cliente EXCEPT
                         !.fecha_inicio_clases = fi_str,
                         !.fecha_fin = IF mensualidades > 0
                                       THEN Some(fi_str[1] + timedelta(mensualidades * 30))
                                       ELSE fi_str]
                 ELSE cliente
       IN cliente' = _recalcular_cobertura_cliente(c1, curso, pagos, now)
    /\ UNCHANGED <<now, curso, pagos, session, eng, reqs, clientes, sched>>

pago_nuevo(monto, concepto_pago) ==
    /\ cliente.existe
    /\ Len(pagos) < MaxPagos
    /\ IF monto <= 0 \/ ~tiene_curso(cliente, curso) \/ curso.precio_mensual <= 0
       THEN UNCHANGED <<cliente, pagos>>
       ELSE LET concepto == IF concepto_pago \in Conceptos THEN concepto_pago ELSE "auto"
                pago == Pago(monto, concepto, Some(now), FALSE)
            IN /\ pagos' = Append(pagos, pago)
               /\ cliente' = _recalcular_cobertura_cliente(cliente, curso, pagos', now)
    /\ UNCHANGED <<now, curso, session, eng, reqs, clientes, sched>>

\* k: the position of the row Pago.query.get_or_404(id) finds
pago_eliminar(k) ==
    /\ k \in 1..Len(pagos)
    /\ pagos' = Quitar(pagos, k)
    /\ cliente' = _recalcular_cobertura_cliente(cliente, curso, pagos', now)
    /\ UNCHANGED <<now, curso, session, eng, reqs, clientes, sched>>

simular_vencimiento ==
    /\ cliente.existe
    /\ cliente' = [cliente EXCEPT !.fecha_fin = Some(now - timedelta(10))]
    /\ UNCHANGED <<now, curso, pagos, session, eng, reqs, clientes, sched>>

EstadoOriginal(c) ==
    Some([fecha_fin |-> c.fecha_fin,
          mensualidades_canceladas |-> c.mensualidades_canceladas])

test_pago_estudiante ==
    /\ cliente.existe
    /\ tiene_curso(cliente, curso)
    /\ Len(pagos) < MaxPagos
    /\ cliente.mensualidades_canceladas < MaxMeses
    /\ session' = EstadoOriginal(cliente)
    /\ pagos' = Append(pagos, Pago(curso.precio_mensual, "auto", Some(now), TRUE))
    /\ cliente' = [cliente EXCEPT
                     !.fecha_fin = IF cliente.fecha_fin # None
                                   THEN Some(cliente.fecha_fin[1] + timedelta(30))
                                   ELSE Some(now + timedelta(30)),
                     !.mensualidades_canceladas = @ + 1]
    /\ UNCHANGED <<now, curso, eng, reqs, clientes, sched>>

\* the student row as test_proximo_vencer leaves it at time t
TrasTestProximoVencer(c, t) ==
    [c EXCEPT !.fecha_fin = Some(t + timedelta(3)),
              !.mensualidades_canceladas = IF @ = 0 THEN 1 ELSE @]

test_proximo_vencer ==
    /\ cliente.existe
    /\ session' = EstadoOriginal(cliente)
    /\ cliente' = TrasTestProximoVencer(cliente, now)
    /\ UNCHANGED <<now, curso, pagos, eng, reqs, clientes, sched>>

\* the student row as test_vencido leaves it at time t
TrasTestVencido(c, t) ==
    [c EXCEPT !.fecha_fin = Some(t - timedelta(10)),
              !.mensualidades_canceladas = IF @ = 0 THEN 1 ELSE @]

test_vencido ==
    /\ cliente.existe
    /\ session' = EstadoOriginal(cliente)
    /\ cliente' = TrasTestVencido(cliente, now)
    /\ UNCHANGED <<now, curso, pagos, eng, reqs, clientes, sched>>

test_restaurar ==
    /\ cliente.existe
    /\ session # None
    /\ cliente' = [cliente EXCEPT
                     !.fecha_fin = session[1].fecha_fin,
                     !.mensualidades_canceladas = session[1].mensualidades_canceladas]
    /\ pagos' = NoTesting(pagos)
    /\ session' = None
    /\ UNCHANGED <<now, curso, eng, reqs, clientes, sched>>

Next ==
    \/ \E pm \in PreciosMensuales \cup {0}, pi \in PreciosInscripcion : curso_nuevo(pm, pi)
    \/ \E pm \in PreciosMensuales \cup {0}, pi \in PreciosInscripcion : curso_editar(pm, pi)
    \/ \E fi \in FechasInicio, m \in MesesFormulario : cliente_nuevo(fi, m)
    \/ \E fi \in {None} \cup {Some(f) : f \in FechasInicio},
          m \in {None} \cup {Some(k) : k \in MesesFormulario} : cliente_editar(fi, m)
    \/ \E monto \in Montos \cup {0}, c \in Conceptos \cup {"otro"} : pago_nuevo(monto, c)
    \/ \E k \in 1..Len(pagos) : pago_eliminar(k)
    \/ simular_vencimiento
    \/ test_pago_estudiante
    \/ test_proximo_vencer
    \/ test_vencido
    \/ test_restaurar

Spec == Init /\ [][Next]_vars

(***************************************************************************)
(* calcular_distribucion_pago (helpers_pagos.py): the preview computed     *)
(* from the student's stored fields.                                       *)
(***************************************************************************)
PreviewVacio ==
    [desglose |-> << >>, inscripcion_cubierta |-> 0, mensualidades_completas |-> 0,
     carry_final |-> 0, es_valido |-> FALSE]

PreviewMensualidades(r, carry_actual, saldo, pm) ==
    LET carry_total == carry_actual + saldo
        meses == carry_total \div pm
        carry_final == carry_total % pm
    IN [r EXCEPT !.mensualidades_completas = meses,
                 !.carry_final = carry_final,
                 !.desglose = @ \o (IF meses > 0 THEN <<Item("mensualidad", meses * pm)>> ELSE << >>)
                                \o (IF carry_final > 0 THEN <<Item("carry", carry_final)>> ELSE << >>)]

calcular_distribucion_pago(monto, c, cur, concepto) ==
    IF ~tiene_curso(c, cur) THEN PreviewVacio
    ELSE IF cur.precio_mensual <= 0 THEN PreviewVacio
    ELSE
    LET pm == cur.precio_mensual
        pend == inscripcion_pendiente(c, cur)
        carry_actual == c.carry_mensualidad
        r0 == [desglose |-> << >>, inscripcion_cubierta |-> 0,
               mensualidades_completas |-> 0, carry_final |-> carry_actual,
               es_valido |-> TRUE]
        r1 == IF concepto = "auto"
              THEN LET cubierta == IF pend > 0
                                   THEN (IF monto >= pend THEN pend ELSE monto)
                                   ELSE 0
                       saldo == IF pend > 0
                                THEN (IF monto >= pend THEN monto - pend ELSE 0)
                                ELSE monto
                       ra == [r0 EXCEPT !.inscripcion_cubierta = cubierta,
                                        !.desglose = IF pend > 0
                                                     THEN <<Item("inscripcion", cubierta)>>
                                                     ELSE << >>]
                   IN IF saldo > 0 THEN PreviewMensualidades(ra, carry_actual, saldo, pm)
                      ELSE ra
              ELSE IF concepto = "inscripcion"
              THEN IF pend > 0
                   THEN [r0 EXCEPT !.inscripcion_cubierta = Min(monto, pend),
                                   !.desglose = <<Item("inscripcion", Min(monto, pend))>>]
                   ELSE [r0 EXCEPT !.desglose = <<Item("info", 0)>>]
              ELSE IF concepto = "mensualidad"
              THEN PreviewMensualidades(r0, carry_actual, monto, pm)
              ELSE r0
    IN [r1 EXCEPT !.es_valido = (r1.desglose # << >>)]

(***************************************************************************)
(* The reconciliation function on its own: its inputs are drawn from       *)
(* bounded sets and it runs one payment of its loop per step.              *)
(***************************************************************************)
MontosMotor == 1..MaxMontoMotor

\* the stored fields of a student before the function runs: fresh, or left
\* over from an earlier state of the payments
ClientesMotor ==
    {[existe |-> TRUE, curso_id |-> 1,
      abono_inscripcion |-> v, mensualidades_canceladas |-> v, carry_mensualidad |-> v,
      fecha_inicio_clases |-> fi, fecha_fin |-> IF v = 0 THEN None ELSE Some(Now0)]
        : v \in {0, 1}, fi \in {None, Some(Now0 - timedelta(1))}}

CursosMotor ==
    {SinCurso} \cup {Curso(pm, pi) : pm \in PreciosMensuales \cup {0}, pi \in PreciosInscripcion}

\* histories entered in chronological order (asc) or in reverse (desc)
Historiales ==
    UNION {
      { [k \in 1..n |-> Pago(montos[k], conceptos[k],
                         Some(IF asc THEN Now0 - timedelta(n - k + 1)
                                     ELSE Now0 - timedelta(k)), FALSE)]
          : montos \in [1..n -> MontosMotor], conceptos \in [1..n -> Conceptos],
            asc \in BOOLEAN }
      : n \in 0..MaxHistorial }

InitMotor ==
    /\ now = Now0
    /\ curso \in CursosMotor
    /\ cliente \in ClientesMotor
    /\ pagos \in Historiales
    /\ session = None
    /\ eng = EngIdle
    /\ reqs = NoReqs
    /\ clientes = << >>
    /\ sched = SchedIdle

\* sections 1 and 2: the early returns, then the sort
EngStart ==
    /\ eng.pc = "idle"
    /\ IF SinCobertura(cliente, curso)
       THEN /\ cliente' = CoberturaCero(cliente)
            /\ eng' = [eng EXCEPT !.pc = "done"]
       ELSE /\ eng' = [pc |-> "loop", i |-> 0, orden |-> sorted(pagos, now), acc |-> Acc0]
            /\ UNCHANGED cliente
    /\ UNCHANGED <<now, curso, pagos, session, reqs, clientes, sched>>

\* section 3: one iteration of "for pago in pagos"
EngStep ==
    /\ eng.pc = "loop"
    /\ eng.i < Len(eng.orden)
    /\ eng' = [eng EXCEPT !.i = @ + 1,
                          !.acc = AplicarPago(@, eng.orden[eng.i + 1],
                                              curso.precio_mensual, curso.precio_inscripcion)]
    /\ UNCHANGED <<now, curso, cliente, pagos, session, reqs, clientes, sched>>

\* section 4: write the result to the student
EngFinish ==
    /\ eng.pc = "loop"
    /\ eng.i = Len(eng.orden)
    /\ cliente' = ActualizarCliente(cliente, eng.acc)
    /\ eng' = [eng EXCEPT !.pc = "done"]
    /\ UNCHANGED <<now, curso, pagos, session, reqs, clientes, sched>>

NextMotor == EngStart \/ EngStep \/ EngFinish

SpecMotor == InitMotor /\ [][NextMotor]_vars

\* the loop and the function agree
MotorCoherente ==
    eng.pc = "done" => cliente = _recalcular_cobertura_cliente(cliente, curso, pagos, now)

(***************************************************************************)
(* Concurrent payment requests on one student.  Each request runs in its   *)
(* own database session and transaction: it loads the rows, flushes its    *)
(* INSERT or DELETE, re-reads the payments and recomputes, then commits.   *)
(* The handlers take no lock, and a transaction (READ COMMITTED) sees the  *)
(* committed rows and its own uncommitted change.  The commit's UPDATE     *)
(* writes the columns whose value differs from the one the session loaded. *)
(***************************************************************************)
Reqs == 1..NumReqs

Peticion(op, monto, concepto, target) ==
    [op |-> op, monto |-> monto, concepto |-> concepto, target |-> target,
     pc |-> "start", fecha |-> None, loaded |-> SinCliente, local |-> SinCliente]

Peticiones ==
    {Peticion("nuevo", m, c, 0) : m \in Montos, c \in Conceptos}
      \cup {Peticion("eliminar", 0, "auto", k) : k \in 1..MaxPagosConc}

HistorialesConc ==
    UNION {
      { [k \in 1..n |-> Pago(montos[k], conceptos[k], Some(Now0 - timedelta(n - k + 1)), FALSE)]
          : montos \in [1..n -> Montos], conceptos \in [1..n -> Conceptos] }
      : n \in 0..MaxPagosConc }

ClienteNuevo(fi) ==
    [existe |-> TRUE, curso_id |-> 1,
     abono_inscripcion |-> 0, mensualidades_canceladas |-> 0,
     carry_mensualidad |-> 0, fecha_inicio_clases |-> Some(fi), fecha_fin |-> Some(fi)]

InitConc ==
    /\ now = Now0
    /\ curso \in {Curso(pm, pi) : pm \in PreciosMensuales, pi \in PreciosInscripcion}
    /\ pagos \in HistorialesConc
    /\ cliente = _recalcular_cobertura_cliente(
                    ClienteNuevo(Now0 - timedelta(1)), curso, pagos, now)
    /\ session = None
    /\ eng = EngIdle
    /\ reqs \in [Reqs -> Peticiones]
    /\ clientes = << >>
    /\ sched = SchedIdle

\* a request holds an uncommitted change of the payments
EnVuelo(r) == reqs[r].pc \in {"flushed", "recalculated"}

\* Cliente.query.get_or_404 / Pago.query.get_or_404 and pago.cliente
ReqLoad(r) ==
    /\ reqs[r].pc = "start"
    /\ reqs' = [reqs EXCEPT ![r] =
                  IF reqs[r].op = "eliminar" /\ reqs[r].target \notin 1..Len(pagos)
                  THEN [@ EXCEPT !.pc = "done"]
                  ELSE [@ EXCEPT !.pc = "loaded", !.loaded = cliente, !.local = cliente]]
    /\ UNCHANGED <<now, curso, cliente, pagos, session, eng, clientes, sched>>

\* db.session.add(pago) / db.session.delete(pago), then db.session.flush()
ReqFlush(r) ==
    /\ reqs[r].pc = "loaded"
    /\ \A q \in Reqs \ {r} :
          ~(/\ EnVuelo(q)
            /\ reqs[q].op = "eliminar"
            /\ reqs[r].op = "eliminar"
            /\ reqs[q].target = reqs[r].target
            /\ reqs[r].target # 0)
    /\ reqs' = [reqs EXCEPT ![r] = [@ EXCEPT !.pc = "flushed", !.fecha = Some(now)]]
    /\ now' = now + 1
    /\ UNCHANGED <<curso, cliente, pagos, session, eng, clientes, sched>>

\* the payments the request's transaction sees
Visibles(r) ==
    IF reqs[r].op = "nuevo"
    THEN Append(pagos, Pago(reqs[r].monto, reqs[r].concepto, reqs[r].fecha, FALSE))
    ELSE IF reqs[r].target \in 1..Len(pagos) THEN Quitar(pagos, reqs[r].target)
    ELSE pagos

\* _recalcular_cobertura_cliente(cliente) on the session's objects
ReqRecalc(r) ==
    /\ reqs[r].pc = "flushed"
    /\ reqs' = [reqs EXCEPT ![r] =
                  [@ EXCEPT !.pc = "recalculated",
                            !.local = _recalcular_cobertura_cliente(
                                          reqs[r].local, curso, Visibles(r), now)]]
    /\ UNCHANGED <<now, curso, cliente, pagos, session, eng, clientes, sched>>

\* the UPDATE of the commit: only the attributes the session changed
Escribir(fila, loaded, local) ==
    [fila EXCEPT
       !.abono_inscripcion =
           IF local.abono_inscripcion # loaded.abono_inscripcion
           THEN local.abono_inscripcion ELSE @,
       !.mensualidades_canceladas =
           IF local.mensualidades_canceladas # loaded.mensualidades_canceladas
           THEN local.mensualidades_canceladas ELSE @,
       !.carry_mensualidad =
           IF local.carry_mensualidad # loaded.carry_mensualidad
           THEN local.carry_mensualidad ELSE @,
       !.fecha_fin =
           IF local.fecha_fin # loaded.fecha_fin THEN local.fecha_fin ELSE @]

\* a committed DELETE moves the rows after it: the other requests' targets follow
Reubicar(q, k) ==
    IF q.op = "eliminar" /\ q.pc # "done" /\ q.target = k THEN [q EXCEPT !.target = 0]
    ELSE IF q.op = "eliminar" /\ q.pc # "done" /\ q.target > k
    THEN [q EXCEPT !.target = @ - 1]
    ELSE q

\* db.session.commit()
ReqCommit(r) ==
    /\ reqs[r].pc = "recalculated"
    /\ pagos' = Visibles(r)
    /\ cliente' = Escribir(cliente, reqs[r].loaded, reqs[r].local)
    /\ reqs' = [q \in Reqs |->
                  IF q = r THEN [reqs[r] EXCEPT !.pc = "done"]
                  ELSE IF reqs[r].op = "eliminar" /\ reqs[r].target \in 1..Len(pagos)
                  THEN Reubicar(reqs[q], reqs[r].target)
                  ELSE reqs[q]]
    /\ UNCHANGED <<now, curso, session, eng, clientes, sched>>

NextConc ==
    \E r \in Reqs : ReqLoad(r) \/ ReqFlush(r) \/ ReqRecalc(r) \/ ReqCommit(r)

SpecConc == InitConc /\ [][NextConc]_vars

(***************************************************************************)
(* The same requests served one at a time, with the steps that can raise.  *)
(* An exception before the commit reaches the handler's except branch,     *)
(* which rolls the session back; the ValueError branch of pago_nuevo does  *)
(* not, and the session's open transaction is discarded when the request   *)
(* ends.  After the commit pago_nuevo sends the confirmation email inside  *)
(* its own try/except.                                                     *)
(***************************************************************************)
\* a request between its load and its commit or failure
EnCurso(r) == reqs[r].pc \in {"loaded", "flushed", "recalculated"}

Turno(r) == \A q \in Reqs \ {r} : ~EnCurso(q)

\* mutant: the failed request leaves its flushed INSERT or DELETE in the database
ReqFalla_sin_rollback(r) ==
    /\ EnCurso(r)
    /\ pagos' = IF EnVuelo(r) THEN Visibles(r) ELSE pagos
    /\ reqs' = [q \in Reqs |->
                  IF q = r THEN [reqs[r] EXCEPT !.pc = "failed"]
                  ELSE IF EnVuelo(r) /\ reqs[r].op = "eliminar" /\ reqs[r].target \in 1..Len(pagos)
                  THEN Reubicar(reqs[q], reqs[r].target)
                  ELSE reqs[q]]
    /\ UNCHANGED <<now, curso, cliente, session, eng, clientes, sched>>

\* a step before the commit raises (the flush, the recalculation or the
\* commit itself): db.session.rollback(), nothing of the request is written
ReqFalla(r) ==
    /\ EnCurso(r)
    /\ reqs' = [reqs EXCEPT ![r] = [@ EXCEPT !.pc = "failed", !.local = reqs[r].loaded]]
    /\ UNCHANGED <<now, curso, cliente, pagos, session, eng, clientes, sched>>

\* enviar_confirmacion_pago(cliente, pago) after the commit of pago_nuevo:
\* it returns True, returns False or raises, and the handler goes on
ReqCorreo(r) ==
    /\ reqs[r].pc = "done"
    /\ reqs[r].op = "nuevo"
    /\ reqs[r].fecha # None
    /\ \E enviado \in BOOLEAN :
          reqs' = [reqs EXCEPT ![r] =
                     [@ EXCEPT !.pc = IF enviado THEN "mailed" ELSE "mail_failed"]]
    /\ UNCHANGED <<now, curso, cliente, pagos, session, eng, clientes, sched>>

NextTrans ==
    \E r \in Reqs :
        \/ Turno(r) /\ ReqLoad(r)
        \/ ReqFlush(r)
        \/ ReqRecalc(r)
        \/ ReqCommit(r)
        \/ ReqFalla(r)
        \/ ReqCorreo(r)

SpecTrans == InitConc /\ [][NextTrans]_vars

(***************************************************************************)
(* The reconciliation function on dated inputs: a course of 50 a month     *)
(* with an enrollment fee of 0 or 30, a student who starts on 2025-01-01   *)
(* and payments of 25, 50 and 150.  Time is counted in hours from          *)
(* 2025-01-01 00:00.                                                       *)
(***************************************************************************)
\* the days of 2025 before the first day of each month
DiasAntesDelMes == <<0, 31, 59, 90, 120, 151, 181, 212, 243, 273, 304, 334>>

\* datetime.strptime('2025-mm-dd', '%Y-%m-%d')
strptime(mes, dia) == timedelta(DiasAntesDelMes[mes] + dia - 1)

MontosEscenario == {25, 50, 150}

CursosEscenario == {Curso(50, pi) : pi \in {0, 30}}

HistorialesEscenario ==
    UNION {
      { [k \in 1..n |-> Pago(montos[k], conceptos[k],
                             Some(strptime(1, 1) + timedelta(k)), FALSE)]
          : montos \in [1..n -> MontosEscenario], conceptos \in [1..n -> Conceptos] }
      : n \in 0..MaxHistorial }

InitEscenario ==
    /\ now = Now0
    /\ curso \in CursosEscenario
    /\ cliente = ClienteNuevo(strptime(1, 1))
    /\ pagos \in HistorialesEscenario
    /\ session = None
    /\ eng = EngIdle
    /\ reqs = NoReqs
    /\ clientes = << >>
    /\ sched = SchedIdle

SpecEscenario == InitEscenario /\ [][NextMotor]_vars

(***************************************************************************)
(* ReminderScheduler (reminder_scheduler.py): three cron jobs a day, at    *)
(* 9:00, 10:00 and 14:00, each over all the active students.  clientes is  *)
(* the Cliente table the jobs read; a row holds the student's columns (c), *)
(* activo, whether email is filled, and what the mail function does for    *)
(* that address: "ok" (returns True), "false" (returns False) or "raise".  *)
(***************************************************************************)
Fila(c, activo, email, entrega) ==
    [c |-> c, activo |-> activo, email |-> email, entrega |-> entrega]

\* a student row as the reconciliation leaves it with m periods and no carry
Reconciliada(fi, m) ==
    ActualizarCliente(ClienteNuevo(fi), [abono |-> 0, carry |-> 0, meses |-> m])

\* start dates (at 00:00, as the form's date is parsed): already started,
\* and not started before the last day of the model
InicioPasado == Now0 - timedelta(25)
InicioFuturo == Now0 + timedelta(MaxDias + 10)

\* hours of the day at which test_proximo_vencer is called on a student
HorasPrueba == {9, 12}

\* the rows of the table: a student with one period paid, with each
\* behaviour of the mail; students the jobs skip; students who have not
\* started, one of them after test_vencido ran on it; students whose
\* fecha_fin test_proximo_vencer set, with the hour of the call
FilasAviso ==
    {Fila(Reconciliada(InicioPasado, 1), TRUE, TRUE, e) : e \in {"ok", "false", "raise"}}
      \cup {Fila(Reconciliada(InicioPasado, 1), TRUE, FALSE, "ok"),
            Fila(Reconciliada(InicioPasado, 1), FALSE, TRUE, "ok"),
            Fila(Reconciliada(InicioPasado, 0), TRUE, TRUE, "ok"),
            Fila([Reconciliada(InicioPasado, 1) EXCEPT !.curso_id = 0], TRUE, TRUE, "ok"),
            Fila(Reconciliada(InicioFuturo, 1), TRUE, TRUE, "ok"),
            Fila(TrasTestVencido(Reconciliada(InicioFuturo, 0), Now0), TRUE, TRUE, "ok")}
      \cup {Fila(TrasTestProximoVencer(Reconciliada(InicioPasado, 1), Now0 + h),
                 TRUE, TRUE, "ok") : h \in HorasPrueba}

InitAvisos ==
    /\ now = Now0 + 9
    /\ curso = Curso(2, 0)
    /\ cliente = SinCliente
    /\ pagos = << >>
    /\ session = None
    /\ eng = EngIdle
    /\ reqs = NoReqs
    /\ clientes \in [1..NumEstudiantes -> FilasAviso]
    /\ sched = SchedIdle

Hora(t) == t % 24
Dia(t) == t \div 24

\* (estudiante.fecha_fin - datetime.now()).days
dias_para_vencer(fila, t) == (fila.c.fecha_fin[1] - t) \div 24

\* the student is skipped: no course, no fecha_fin, or no period paid
Saltado(fila) ==
    \/ ~tiene_curso(fila.c, curso)
    \/ fila.c.fecha_fin = None
    \/ fila.c.mensualidades_canceladas = 0

\* mutant: the notice goes out every day of the last three
CondicionPreventivo_hasta_tres(dias) == dias >= 0 /\ dias <= 3

CondicionPreventivo(dias) == dias = 3

\* mutant: the reminder of the day after also goes out three days before
CondicionUrgente_tambien_antes(dias) == dias = -1 \/ dias = 3

CondicionUrgente(dias) == dias = -1

\* mutant: the reminder goes out every day from the seventh on
CondicionCritico_diario(dias) == dias < -6

CondicionCritico(dias) == dias < -6 /\ (-dias) % 7 = 0

Condicion(tipo, dias) ==
    IF tipo = "preventivo" THEN CondicionPreventivo(dias)
    ELSE IF tipo = "urgente" THEN CondicionUrgente(dias)
    ELSE CondicionCritico(dias)

\* _enviar_aviso_seguro / _enviar_recordatorio_seguro: False without
\* email, when the mail function returns False and when it raises
enviar_seguro(fila) == fila.email /\ fila.entrega = "ok"

Evento(k, tipo, t) == [k |-> k, tipo |-> tipo, t |-> t]

\* mutant: the first failed delivery ends the run
RECURSIVE Lote_hasta_fallo(_, _, _, _)
Lote_hasta_fallo(tipo, k, t, s) ==
    IF k > Len(clientes) THEN s
    ELSE LET fila == clientes[k] IN
         IF ~fila.activo THEN Lote_hasta_fallo(tipo, k + 1, t, s)
         ELSE IF Saltado(fila)
         THEN Lote_hasta_fallo(tipo, k + 1, t, [s EXCEPT !.resumen.saltados = @ + 1])
         ELSE IF ~Condicion(tipo, dias_para_vencer(fila, t))
         THEN Lote_hasta_fallo(tipo, k + 1, t, s)
         ELSE IF enviar_seguro(fila)
         THEN Lote_hasta_fallo(tipo, k + 1, t,
                   [s EXCEPT !.sent = @ \cup {Evento(k, tipo, t)},
                             !.resumen.enviados = @ + 1])
         ELSE [s EXCEPT !.failed = @ \cup {Evento(k, tipo, t)},
                        !.resumen.errores = @ + 1]

\* "for estudiante in estudiantes_activos" from row k on
RECURSIVE Lote(_, _, _, _)
Lote(tipo, k, t, s) ==
    IF k > Len(clientes) THEN s
    ELSE LET fila == clientes[k] IN
         IF ~fila.activo THEN Lote(tipo, k + 1, t, s)
         ELSE IF Saltado(fila)
         THEN Lote(tipo, k + 1, t, [s EXCEPT !.resumen.saltados = @ + 1])
         ELSE IF ~Condicion(tipo, dias_para_vencer(fila, t))
         THEN Lote(tipo, k + 1, t, s)
         ELSE IF enviar_seguro(fila)
         THEN Lote(tipo, k + 1, t,
                   [s EXCEPT !.sent = @ \cup {Evento(k, tipo, t)},
                             !.resumen.enviados = @ + 1])
         ELSE Lote(tipo, k + 1, t,
                   [s EXCEPT !.failed = @ \cup {Evento(k, tipo, t)},
                             !.resumen.errores = @ + 1])

ResumenCero == [enviados |-> 0, errores |-> 0, saltados |-> 0]

\* mutant: the run renews the coverage of the students it notified
Tarea_que_renueva(tipo, hora) ==
    /\ Hora(now) = hora
    /\ ~sched.corrido
    /\ sched' = Lote(tipo, 1, now,
                     [sched EXCEPT !.corrido = TRUE, !.resumen = ResumenCero])
    /\ clientes' = [k \in 1..Len(clientes) |->
                      IF Evento(k, tipo, now) \in sched'.sent
                      THEN [clientes[k] EXCEPT !.c.fecha_fin = Some(@[1] + timedelta(30))]
                      ELSE clientes[k]]
    /\ UNCHANGED <<now, curso, cliente, pagos, session, eng, reqs>>

\* one run of a job at its hour
Tarea(tipo, hora) ==
    /\ Hora(now) = hora
    /\ ~sched.corrido
    /\ sched' = Lote(tipo, 1, now,
                     [sched EXCEPT !.corrido = TRUE,
                                   !.resumen = [enviados |-> 0, errores |-> 0, saltados |-> 0]])
    /\ UNCHANGED <<now, curso, cliente, pagos, session, eng, reqs, clientes>>

enviar_avisos_preventivos == Tarea("preventivo", 9)

enviar_recordatorios_urgentes == Tarea("urgente", 10)

enviar_recordatorios_criticos == Tarea("critico", 14)

\* the next cron time: 9:00 -> 10:00 -> 14:00 -> 9:00 of the next day
ProximoDisparo(t) ==
    IF Hora(t) = 9 THEN t + 1 ELSE IF Hora(t) = 10 THEN t + 4 ELSE t + 19

\* the clock reaches the next cron time once the job due now has run
Reloj ==
    /\ sched.corrido
    /\ Dia(ProximoDisparo(now)) < Dia(Now0) + MaxDias
    /\ now' = ProximoDisparo(now)
    /\ sched' = [sched EXCEPT !.corrido = FALSE]
    /\ UNCHANGED <<curso, cliente, pagos, session, eng, reqs, clientes>>

NextAvisos ==
    \/ enviar_avisos_preventivos
    \/ enviar_recordatorios_urgentes
    \/ enviar_recordatorios_criticos
    \/ Reloj

SpecAvisos == InitAvisos /\ [][NextAvisos]_vars

(***************************************************************************)
(* The scheduler with the manual run of /test-recordatorios, which calls   *)
(* the three jobs one after the other at whatever time it is.              *)
(***************************************************************************)
\* the cron hour of each job
HoraDe(tipo) == IF tipo = "preventivo" THEN 9 ELSE IF tipo = "urgente" THEN 10 ELSE 14

\* the times of the manual runs that left an attempt in the log: one made
\* outside the hour of its job
TiemposManuales ==
    {e.t : e \in {x \in sched.sent \cup sched.failed : Hora(x.t) # HoraDe(x.tipo)}}

\* ReminderScheduler.enviar_ahora
enviar_ahora ==
    /\ Cardinality(TiemposManuales) < MaxManuales
    /\ sched' =
          LET s1 == Lote("preventivo", 1, now, [sched EXCEPT !.resumen = ResumenCero])
              s2 == Lote("urgente", 1, now, [s1 EXCEPT !.resumen = ResumenCero])
          IN Lote("critico", 1, now, [s2 EXCEPT !.resumen = ResumenCero])
    /\ UNCHANGED <<now, curso, cliente, pagos, session, eng, reqs, clientes>>

NextAhora == NextAvisos \/ enviar_ahora

SpecAhora == InitAvisos /\ [][NextAhora]_vars

(***************************************************************************)
(* Properties of the reconciliation function (SpecMotor)                   *)
(***************************************************************************)
\* the payment the loop takes next
PagoActual == eng.orden[eng.i + 1]

\* a step of the loop on a positive payment of the given concept
PasoDe(concepto) ==
    /\ eng.pc = "loop"
    /\ eng'.pc = "loop"
    /\ eng'.i = eng.i + 1
    /\ PagoActual.concepto = concepto
    /\ PagoActual.monto > 0

\* what is still missing of the enrollment fee, given the running total
Faltante == Max(0, curso.precio_inscripcion - eng.acc.abono)

\* C4: for a student whose stored fields equal the replay of the history,
\* the preview of every positive amount and concept reports the enrollment
\* covered, the periods completed and the resulting carry that the full
\* replay produces once the payment is appended as the latest one; and the
\* items of pago_nuevo's inline breakdown report the same amounts.
C4_PreviewIgualQueMotor ==
    cliente = _recalcular_cobertura_cliente(cliente, curso, pagos, now) =>
      \A monto \in MontosMotor, concepto \in Conceptos :
        LET prev == calcular_distribucion_pago(monto, cliente, curso, concepto)
            despues == _recalcular_cobertura_cliente(
                          cliente, curso,
                          Append(pagos, Pago(monto, concepto, Some(now), FALSE)), now)
            d_abono == despues.abono_inscripcion - cliente.abono_inscripcion
            d_meses == despues.mensualidades_canceladas - cliente.mensualidades_canceladas
            inline == IF tiene_curso(cliente, curso) /\ curso.precio_mensual > 0
                      THEN DesglosePagoNuevo(monto, concepto, cliente, curso)
                      ELSE << >>
        IN /\ prev.inscripcion_cubierta = d_abono
           /\ prev.mensualidades_completas = d_meses
           /\ prev.carry_final = despues.carry_mensualidad
           /\ \A k \in 1..Len(inline) :
                /\ inline[k].tipo = "inscripcion" => inline[k].monto = d_abono
                /\ inline[k].tipo = "mensualidad" =>
                      inline[k].monto = d_meses * curso.precio_mensual
                /\ inline[k].tipo = "carry" => inline[k].monto = despues.carry_mensualidad

\* the same statement for the students that have a start date
C4_PreviewConFechaInicio ==
    cliente.fecha_inicio_clases # None => C4_PreviewIgualQueMotor

\* C6: when the student has no course, or precio_mensual is not positive,
\* or fecha_inicio_clases is unset, the function takes an early return (it
\* never enters the loop) and leaves abono_inscripcion = 0,
\* mensualidades_canceladas = 0, carry_mensualidad = 0, fecha_fin = None,
\* whatever the payments and the fields stored before.
C6_CoberturaCeroSinError ==
    (\/ cliente.curso_id = 0
     \/ ~curso.existe
     \/ curso.precio_mensual <= 0
     \/ cliente.fecha_inicio_clases = None)
    => /\ eng.pc \in {"idle", "done"}
       /\ eng.pc = "done" =>
            /\ cliente.abono_inscripcion = 0
            /\ cliente.mensualidades_canceladas = 0
            /\ cliente.carry_mensualidad = 0
            /\ cliente.fecha_fin = None

C6_Witness ==
    /\ eng.pc = "done"
    /\ curso.existe
    /\ curso.precio_mensual > 0
    /\ cliente.fecha_inicio_clases = None
    /\ Len(pagos) = 2
    /\ cliente.carry_mensualidad = 0

\* C7: an 'auto' payment goes first to the enrollment shortfall.  When the
\* amount reaches the shortfall the enrollment ends fully paid and only the
\* remainder joins the carry, whole periods being taken out of it in the
\* same step; when it does not, the whole amount goes to the enrollment
\* and the carry and the period count stay as they were.
C7_PagoAuto ==
    [][PasoDe("auto") =>
        LET monto == PagoActual.monto
            pm == curso.precio_mensual
            total == eng.acc.carry + (monto - Faltante)
        IN IF monto >= Faltante
           THEN /\ eng'.acc.abono = eng.acc.abono + Faltante
                /\ eng'.acc.abono >= curso.precio_inscripcion
                /\ eng'.acc.meses = eng.acc.meses + (total \div pm)
                /\ eng'.acc.carry = total % pm
           ELSE /\ eng'.acc.abono = eng.acc.abono + monto
                /\ eng'.acc.carry = eng.acc.carry
                /\ eng'.acc.meses = eng.acc.meses]_vars

\* an 'auto' payment that completed the enrollment and a period at once
C7_Witness ==
    /\ eng.pc = "loop"
    /\ eng.i = 2
    /\ eng.orden[1].concepto = "mensualidad"
    /\ eng.orden[1].monto < curso.precio_mensual
    /\ eng.orden[2].concepto = "auto"
    /\ curso.precio_inscripcion > 0
    /\ eng.acc.abono = curso.precio_inscripcion
    /\ eng.acc.meses = 1

\* C8: an 'inscripcion' payment adds min(amount, shortfall) to the
\* enrollment paid and nothing else: the excess is dropped, the carry and
\* the period count stay as they were, also when the enrollment is already
\* fully paid.
C8_PagoInscripcion ==
    [][PasoDe("inscripcion") =>
        /\ eng'.acc.abono = eng.acc.abono + Min(PagoActual.monto, Faltante)
        /\ eng'.acc.carry = eng.acc.carry
        /\ eng'.acc.meses = eng.acc.meses]_vars

\* a second 'inscripcion' payment on an enrollment the first one overpaid
C8_Witness ==
    /\ eng.pc = "loop"
    /\ eng.i = 2
    /\ eng.orden[1].concepto = "inscripcion"
    /\ eng.orden[2].concepto = "inscripcion"
    /\ curso.precio_inscripcion > 0
    /\ eng.orden[1].monto > curso.precio_inscripcion
    /\ eng.acc = [abono |-> curso.precio_inscripcion, carry |-> 0, meses |-> 0]

\* C9: a 'mensualidad' payment adds its whole amount to the carry, also
\* while the enrollment is unpaid, then moves floor(carry / precio_mensual)
\* periods out of the carry; the enrollment paid stays as it was.
C9_PagoMensualidad ==
    [][PasoDe("mensualidad") =>
        LET total == eng.acc.carry + PagoActual.monto
            pm == curso.precio_mensual
        IN /\ eng'.acc.meses = eng.acc.meses + (total \div pm)
           /\ eng'.acc.carry = total - (total \div pm) * pm
           /\ eng'.acc.abono = eng.acc.abono]_vars

\* a 'mensualidad' payment completed a period with the enrollment unpaid
C9_Witness ==
    /\ eng.pc = "loop"
    /\ eng.i = 1
    /\ eng.orden[1].concepto = "mensualidad"
    /\ curso.precio_inscripcion > 0
    /\ eng.acc.abono = 0
    /\ eng.acc.meses = 1
    /\ eng.acc.carry = 1

\* Cliente.total_pagado: the sum of the amounts of the payments
RECURSIVE total_pagado(_)
total_pagado(ps) ==
    IF ps = << >> THEN 0 ELSE Head(ps).monto + total_pagado(Tail(ps))

\* the function ran its loop: valid course, valid price, start date set
Reconciliado == eng.pc = "done" /\ ~SinCobertura(cliente, curso)

SoloAuto == \A k \in 1..Len(pagos) : pagos[k].concepto = "auto"

\* C11: for a history made only of 'auto' payments on a course without
\* enrollment fee, the replay conserves the money: the sum of the amounts
\* equals mensualidades_canceladas x precio_mensual + carry_mensualidad.
C11_Conservacion ==
    (Reconciliado /\ SoloAuto /\ curso.precio_inscripcion = 0) =>
        total_pagado(pagos) =
            cliente.mensualidades_canceladas * curso.precio_mensual
              + cliente.carry_mensualidad

\* two 'auto' payments that complete periods and leave a remainder
C11_Witness ==
    /\ Reconciliado
    /\ SoloAuto
    /\ curso.precio_inscripcion = 0
    /\ Len(pagos) = 2
    /\ cliente.mensualidades_canceladas = 2
    /\ cliente.carry_mensualidad > 0

\* the student with other values in the stored coverage fields
ConCampos(c, v) ==
    [c EXCEPT !.abono_inscripcion = v, !.mensualidades_canceladas = v,
              !.carry_mensualidad = v,
              !.fecha_fin = IF v = 0 THEN None ELSE Some(Now0 + timedelta(v))]

\* C13: once the function has run, running it again on the same payments,
\* course and start date leaves the four coverage fields as they are, and
\* so does a run that starts from any other stored values.
C13_Idempotente ==
    eng.pc = "done" =>
        /\ _recalcular_cobertura_cliente(cliente, curso, pagos, now) = cliente
        /\ \A v \in 0..MaxMontoMotor :
              _recalcular_cobertura_cliente(ConCampos(cliente, v), curso, pagos, now)
                  = cliente

\* a first run that left enrollment, a period and a carry
C13_Witness ==
    /\ Reconciliado
    /\ Len(pagos) = 2
    /\ cliente.abono_inscripcion > 0
    /\ cliente.mensualidades_canceladas > 0
    /\ cliente.carry_mensualidad > 0

\* C23: whenever the reconciliation of the student gives the zero-coverage
\* result (no course, precio_mensual not positive, or no start date), the
\* preview of every amount and concept is the empty preview.
C23_PreviewVacioEnDegenerados ==
    SinCobertura(cliente, curso) =>
        \A monto \in MontosMotor, concepto \in Conceptos :
            calcular_distribucion_pago(monto, cliente, curso, concepto) = PreviewVacio

\* the same statement without the case of the start date
C23_PreviewVacioSinCursoOPrecio ==
    (~tiene_curso(cliente, curso) \/ curso.precio_mensual <= 0) =>
        \A monto \in MontosMotor, concepto \in Conceptos :
            calcular_distribucion_pago(monto, cliente, curso, concepto) = PreviewVacio

\* amounts that are not positive
NoPositivos == {0, -1}

\* cliente.pagos with the row p after its first k rows
InsertarEn(ps, k, p) == SubSeq(ps, 1, k) \o <<p>> \o SubSeq(ps, k + 1, Len(ps))

\* payments of an amount that is not positive, of every concept, dated
\* before, between, at and after the payments of the history, or undated
PagosNoPositivos ==
    {Pago(m, c, f, FALSE) :
        m \in NoPositivos, c \in Conceptos,
        f \in {None} \cup {Some(Now0 - timedelta(d)) : d \in 0..(MaxHistorial + 1)}}

\* C24: a payment whose amount is zero or negative, added anywhere in the
\* history, changes none of the four fields the replay writes.
C24_NoPositivoNoCuenta ==
    eng.pc = "done" =>
        \A p \in PagosNoPositivos, k \in 0..Len(pagos) :
            _recalcular_cobertura_cliente(cliente, curso, InsertarEn(pagos, k, p), now)
                = cliente

\* a replay that credited enrollment, a period and a carry
C24_Witness ==
    /\ Reconciliado
    /\ Len(pagos) = MaxHistorial
    /\ cliente.abono_inscripcion > 0
    /\ cliente.mensualidades_canceladas > 0
    /\ cliente.carry_mensualidad > 0
    /\ pagos[1].fecha_pago[1] > pagos[2].fecha_pago[1]

\* positive payments of every concept, dated before, between, at and after
\* the payments of the history
PagosPositivos ==
    {Pago(m, c, Some(Now0 - timedelta(d)), FALSE) :
        m \in MontosMotor, c \in Conceptos, d \in 0..(MaxHistorial + 1)}

\* a has no more enrollment paid, no more periods and no later fecha_fin than b
NoMasQue(a, b) ==
    /\ a.abono_inscripcion <= b.abono_inscripcion
    /\ a.mensualidades_canceladas <= b.mensualidades_canceladas
    /\ a.fecha_fin[1] <= b.fecha_fin[1]

\* C26: adding one positive payment of any concept at any position of any
\* history never lowers abono_inscripcion or mensualidades_canceladas and
\* never moves fecha_fin earlier; deleting a payment never raises them.
C26_Monotona ==
    Reconciliado =>
        /\ \A p \in PagosPositivos, k \in 0..Len(pagos) :
              NoMasQue(cliente,
                       _recalcular_cobertura_cliente(cliente, curso,
                                                     InsertarEn(pagos, k, p), now))
        /\ \A k \in 1..Len(pagos) :
              NoMasQue(_recalcular_cobertura_cliente(cliente, curso, Quitar(pagos, k), now),
                       cliente)

\* a history whose replay left the enrollment fully paid and a period
C26_Witness ==
    /\ Reconciliado
    /\ Len(pagos) = MaxHistorial
    /\ curso.precio_inscripcion > 0
    /\ cliente.abono_inscripcion = curso.precio_inscripcion
    /\ cliente.mensualidades_canceladas > 0
    /\ \E k \in 1..Len(pagos) : pagos[k].concepto = "inscripcion"

SoloDe(concepto) == \A k \in 1..Len(pagos) : pagos[k].concepto = concepto

\* the history with the timestamps of its payments in the reverse order
FechasAlReves(ps) ==
    [k \in 1..Len(ps) |-> [ps[k] EXCEPT !.fecha_pago = ps[Len(ps) + 1 - k].fecha_pago]]

\* C27: for a history whose payments share one concept the replay depends
\* on the sum of the amounts alone.  'auto': enrollment = min(fee, sum),
\* periods = floor((sum - enrollment) / price) and the carry is the rest;
\* 'inscripcion': enrollment = min(fee, sum), nothing else; 'mensualidad':
\* periods = floor(sum / price) and the carry is the rest.  The history
\* with its timestamps permuted gives the same fields.
C27_UnConceptoSoloLaSuma ==
    Reconciliado =>
        LET suma == total_pagado(pagos)
            pm == curso.precio_mensual
            ins == Min(curso.precio_inscripcion, suma)
        IN /\ SoloDe("auto") =>
                /\ cliente.abono_inscripcion = ins
                /\ cliente.mensualidades_canceladas = (suma - ins) \div pm
                /\ cliente.carry_mensualidad = (suma - ins) % pm
           /\ SoloDe("inscripcion") =>
                /\ cliente.abono_inscripcion = ins
                /\ cliente.mensualidades_canceladas = 0
                /\ cliente.carry_mensualidad = 0
           /\ SoloDe("mensualidad") =>
                /\ cliente.abono_inscripcion = 0
                /\ cliente.mensualidades_canceladas = suma \div pm
                /\ cliente.carry_mensualidad = suma % pm
           /\ (\E c \in Conceptos : SoloDe(c)) =>
                _recalcular_cobertura_cliente(cliente, curso, FechasAlReves(pagos), now)
                    = cliente

\* two 'auto' payments of different amounts that paid the enrollment and a period
C27_Witness ==
    /\ Reconciliado
    /\ Len(pagos) = 2
    /\ SoloDe("auto")
    /\ pagos[1].monto # pagos[2].monto
    /\ cliente.abono_inscripcion > 0
    /\ cliente.mensualidades_canceladas > 0

\* the money the stored fields account for
Acreditado(c) ==
    c.abono_inscripcion + c.mensualidades_canceladas * curso.precio_mensual
        + c.carry_mensualidad

\* C28: the replay credits no more than was paid: abono_inscripcion +
\* mensualidades_canceladas x precio_mensual + carry_mensualidad is at most
\* the sum of the amounts, and equals it when the history has no
\* 'inscripcion' payment and no payment of a concept outside the three.
C28_NoAcreditaDeMas ==
    Reconciliado =>
        /\ Acreditado(cliente) <= total_pagado(pagos)
        /\ (\A k \in 1..Len(pagos) : pagos[k].concepto # "inscripcion")
              => Acreditado(cliente) = total_pagado(pagos)
        /\ \A m \in MontosMotor, k \in 0..Len(pagos) :
              Acreditado(_recalcular_cobertura_cliente(
                            cliente, curso,
                            InsertarEn(pagos, k, Pago(m, "otro", Some(Now0), FALSE)), now))
                  <= total_pagado(pagos)

\* an 'inscripcion' payment above the fee: part of the money is credited nowhere
C28_Witness ==
    /\ Reconciliado
    /\ \E k \in 1..Len(pagos) : pagos[k].concepto = "inscripcion"
    /\ \E k \in 1..Len(pagos) : pagos[k].concepto = "auto"
    /\ Acreditado(cliente) < total_pagado(pagos)
    /\ cliente.mensualidades_canceladas > 0

\* C29: while the function runs and once it has written the student, the
\* enrollment paid is between 0 and the enrollment fee of the course; and
\* once it equals the fee, the payments that follow leave it there.
C29_AbonoHastaLaInscripcion ==
    [][/\ eng'.pc \in {"loop", "done"} =>
            /\ 0 <= eng'.acc.abono
            /\ eng'.acc.abono <= curso.precio_inscripcion
       /\ eng'.pc = "done" =>
            /\ 0 <= cliente'.abono_inscripcion
            /\ cliente'.abono_inscripcion <= curso.precio_inscripcion
       /\ (EngStep /\ eng.acc.abono = curso.precio_inscripcion) =>
            eng'.acc.abono = curso.precio_inscripcion]_vars

\* the enrollment is fully paid after the first payment and the loop has
\* an 'inscripcion' payment still to take
C29_Witness ==
    /\ eng.pc = "loop"
    /\ eng.i = 1
    /\ Len(eng.orden) = 2
    /\ curso.precio_inscripcion > 0
    /\ eng.acc.abono = curso.precio_inscripcion
    /\ eng.orden[2].concepto = "inscripcion"

(***************************************************************************)
(* Properties of the dated scenarios (SpecEscenario)                       *)
(***************************************************************************)
\* precio_mensual 50, no enrollment fee, start 2025-01-01, one
\* 'mensualidad' payment of 150, reconciled
EscenarioTres ==
    /\ eng.pc = "done"
    /\ curso = Curso(50, 0)
    /\ cliente.fecha_inicio_clases = Some(strptime(1, 1))
    /\ Len(pagos) = 1
    /\ pagos[1].monto = 150
    /\ pagos[1].concepto = "mensualidad"

\* C15 as stated: the scenario reconciles to 3 periods, carry 0 and
\* fecha_fin = 2025-03-02, 90 days after the start date.
C15_EscenarioTres_20250302 ==
    EscenarioTres =>
        /\ cliente.mensualidades_canceladas = 3
        /\ cliente.carry_mensualidad = 0
        /\ cliente.fecha_fin = Some(strptime(3, 2))
        /\ cliente.fecha_fin = Some(cliente.fecha_inicio_clases[1] + timedelta(90))

\* C15, amended: the scenario reconciles to 3 periods, carry 0 and
\* fecha_fin = 2025-04-01, which is the date 90 days after 2025-01-01.
C15_EscenarioTres_20250401 ==
    EscenarioTres =>
        /\ cliente.mensualidades_canceladas = 3
        /\ cliente.carry_mensualidad = 0
        /\ cliente.fecha_fin = Some(strptime(4, 1))
        /\ cliente.fecha_fin = Some(cliente.fecha_inicio_clases[1] + timedelta(90))

C15_Witness ==
    /\ EscenarioTres
    /\ cliente.mensualidades_canceladas = 3
    /\ cliente.fecha_fin # cliente.fecha_inicio_clases

(***************************************************************************)
(* Properties of the reminder scheduler (SpecAvisos)                       *)
(***************************************************************************)
\* the cron times of a job up to the last day of the model
Disparos(hora) == {d * 24 + hora : d \in Dia(Now0)..(Dia(Now0) + MaxDias)}

\* the job due at cron time t has run
YaCorrio(t) == t < now \/ (t = now /\ sched.corrido)

\* an active student with a course, a period paid, classes started, and an
\* address the mail is delivered to
Elegible(k) ==
    /\ clientes[k].activo
    /\ ~Saltado(clientes[k])
    /\ clientes[k].c.fecha_inicio_clases # None
    /\ clientes[k].c.fecha_inicio_clases[1] <= Now0
    /\ enviar_seguro(clientes[k])

EnviadosA(k, tipo) == {e \in sched.sent : e.k = k /\ e.tipo = tipo}

\* C16: for an eligible student whose coverage fields stay as they are,
\* over the daily runs the pre-expiry reminder is sent on the one day whose
\* 9:00 run finds days_to_expiry = 3 and the post-expiry reminder on the one
\* day whose 10:00 run finds days_to_expiry = -1, and on no other day.
C16_UnaVezCadaAviso ==
    \A k \in 1..Len(clientes) : Elegible(k) =>
        /\ \A t \in Disparos(9) : YaCorrio(t) =>
              (Evento(k, "preventivo", t) \in sched.sent
                  <=> dias_para_vencer(clientes[k], t) = 3)
        /\ \A t \in Disparos(10) : YaCorrio(t) =>
              (Evento(k, "urgente", t) \in sched.sent
                  <=> dias_para_vencer(clientes[k], t) = -1)
        /\ \A e \in EnviadosA(k, "preventivo") : Hora(e.t) = 9
        /\ \A e \in EnviadosA(k, "urgente") : Hora(e.t) = 10
        /\ Cardinality(EnviadosA(k, "preventivo")) <= 1
        /\ Cardinality(EnviadosA(k, "urgente")) <= 1

\* both reminders went out, and a week of runs has passed since
C16_Witness ==
    \E k \in 1..Len(clientes) :
        /\ Elegible(k)
        /\ \E e \in EnviadosA(k, "preventivo") : now > e.t + timedelta(7)
        /\ \E e \in EnviadosA(k, "urgente") : now > e.t + timedelta(7)

\* C17: the 14:00 run sends the critical reminder to an eligible student
\* exactly when days_to_expiry <= -7 and its absolute value is a multiple
\* of 7: the first one on the day days_to_expiry = -7, each next one 7 days
\* after the one before, none on the days -1 to -6.
C17_CriticoCadaSieteDias ==
    \A k \in 1..Len(clientes) : Elegible(k) =>
        /\ \A t \in Disparos(14) : YaCorrio(t) =>
              LET dias == dias_para_vencer(clientes[k], t) IN
              /\ Evento(k, "critico", t) \in sched.sent
                    <=> (dias <= -7 /\ (-dias) % 7 = 0)
              /\ dias \in -6..-1 => Evento(k, "critico", t) \notin sched.sent
        /\ \A e \in EnviadosA(k, "critico") :
              /\ Hora(e.t) = 14
              /\ \/ dias_para_vencer(clientes[k], e.t) = -7
                 \/ Evento(k, "critico", e.t - timedelta(7)) \in sched.sent
                 \/ e.t - timedelta(7) < Now0

\* two critical reminders, on the 7th and the 14th day
C17_Witness ==
    \E k \in 1..Len(clientes) :
        /\ Elegible(k)
        /\ \E e1, e2 \in EnviadosA(k, "critico") :
              /\ dias_para_vencer(clientes[k], e1.t) = -7
              /\ e2.t = e1.t + timedelta(7)

\* C18: every notification a scheduled run sends goes to a student who is
\* active, has a course, has fecha_inicio_clases in the past at the time of
\* the run, and has mensualidades_canceladas > 0.
C18_SoloAElegibles ==
    \A e \in sched.sent :
        LET fila == clientes[e.k] IN
        /\ fila.activo
        /\ tiene_curso(fila.c, curso)
        /\ fila.c.mensualidades_canceladas > 0
        /\ fila.c.fecha_inicio_clases # None
        /\ e.t >= fila.c.fecha_inicio_clases[1]

\* C19: for an eligible student with one period whose fecha_fin falls on
\* the date three days after today, today's 9:00 run sends the pre-expiry
\* reminder; on the day the date is two days after today no run sends
\* anything to the student.
C19_AvisoTresDiasAntes ==
    \A k \in 1..Len(clientes) :
        (Elegible(k) /\ clientes[k].c.mensualidades_canceladas = 1) =>
            /\ \A t \in Disparos(9) :
                  (YaCorrio(t) /\ Dia(clientes[k].c.fecha_fin[1]) = Dia(t) + 3)
                      => Evento(k, "preventivo", t) \in sched.sent
            /\ \A e \in sched.sent :
                  e.k = k => Dia(clientes[k].c.fecha_fin[1]) # Dia(e.t) + 2

\* the day after, alone: nothing is sent with the date two days ahead
C19_NadaDosDiasAntes ==
    \A k \in 1..Len(clientes) :
        (Elegible(k) /\ clientes[k].c.mensualidades_canceladas = 1) =>
            \A e \in sched.sent :
                e.k = k => Dia(clientes[k].c.fecha_fin[1]) # Dia(e.t) + 2

TipoDeLaHora == IF Hora(now) = 9 THEN "preventivo"
                ELSE IF Hora(now) = 10 THEN "urgente" ELSE "critico"

\* the students the run at the current cron time has to notify
PorAvisar ==
    {k \in 1..Len(clientes) :
        /\ clientes[k].activo
        /\ ~Saltado(clientes[k])
        /\ Condicion(TipoDeLaHora, dias_para_vencer(clientes[k], now))}

\* C20: in a run, a delivery that fails (no email, the mail function
\* returns False or raises) is counted as an error and the run goes on:
\* every student that matches the day's condition has its notification
\* attempted, whatever happened to the students before it.
C20_FalloNoDetieneLaTanda ==
    sched.corrido =>
        /\ \A k \in PorAvisar :
              IF enviar_seguro(clientes[k])
              THEN Evento(k, TipoDeLaHora, now) \in sched.sent
              ELSE Evento(k, TipoDeLaHora, now) \in sched.failed
        /\ sched.resumen.errores = Cardinality({e \in sched.failed : e.t = now})
        /\ sched.resumen.enviados = Cardinality({e \in sched.sent : e.t = now})

\* a run in which the first student's delivery failed and the second got
\* its notification
C20_Witness ==
    /\ sched.corrido
    /\ \E e1 \in sched.failed, e2 \in sched.sent :
          /\ e1.t = now
          /\ e2.t = now
          /\ e1.k < e2.k
          /\ clientes[e1.k].entrega = "raise"

\* the jobs whose condition the student row meets at its cron time of day d
TareasDelDia(fila, d) ==
    {tipo \in {"preventivo", "urgente", "critico"} :
        Condicion(tipo, dias_para_vencer(fila, d * 24 + HoraDe(tipo)))}

\* the student row with its fecha_fin h hours later
ConFechaFinMasTarde(fila, h) == [fila EXCEPT !.c.fecha_fin = Some(@[1] + h)]

\* C30: with each job run once a day at its hour, no student is sent more
\* than one notification on one day; and whatever the hour of the day in
\* fecha_fin, at most one of the three conditions holds for a student at
\* the three cron times of a day.
C30_UnAvisoPorDia ==
    /\ \A e1, e2 \in sched.sent :
          (e1.k = e2.k /\ Dia(e1.t) = Dia(e2.t)) => e1 = e2
    /\ \A k \in 1..Len(clientes) :
          clientes[k].c.fecha_fin # None =>
              \A h \in 0..23 :
                  Cardinality(TareasDelDia(ConFechaFinMasTarde(clientes[k], h), Dia(now))) <= 1

\* a student whose fecha_fin is not at midnight got the three notifications
C30_Witness ==
    \E k \in 1..Len(clientes) :
        /\ Hora(clientes[k].c.fecha_fin[1]) # 0
        /\ \A tipo \in {"preventivo", "urgente", "critico"} : EnviadosA(k, tipo) # {}

(***************************************************************************)
(* Properties of the scheduler with the manual run (SpecAhora)             *)
(***************************************************************************)
\* a step of one of the three jobs or of the manual run
PasoDeAviso ==
    \/ enviar_avisos_preventivos
    \/ enviar_recordatorios_urgentes
    \/ enviar_recordatorios_criticos
    \/ enviar_ahora

\* C21: a notification run (each of the three jobs, and enviar_ahora)
\* changes no student's stored fields and no payment; it only adds to the
\* log of the sends.
C21_AvisosSoloLeen ==
    [][PasoDeAviso => UNCHANGED <<clientes, cliente, pagos, curso>>]_vars

\* a manual run and a scheduled run have both delivered a notification
C21_Witness ==
    /\ \E e \in sched.sent : Hora(e.t) # HoraDe(e.tipo)
    /\ \E e \in sched.sent : Hora(e.t) = HoraDe(e.tipo) /\ e.t \notin TiemposManuales

(***************************************************************************)
(* Properties of the stored fields under the request handlers (Spec)       *)
(***************************************************************************)
\* the student as a full replay of the current payments would leave it
Replay == _recalcular_cobertura_cliente(cliente, curso, pagos, now)

\* C1: in every reachable state the stored abono_inscripcion,
\* mensualidades_canceladas and carry_mensualidad of the student equal the
\* replay of the student's current payments with the course's current prices.
C1_CamposIgualReplay ==
    cliente.existe =>
        /\ cliente.abono_inscripcion = Replay.abono_inscripcion
        /\ cliente.mensualidades_canceladas = Replay.mensualidades_canceladas
        /\ cliente.carry_mensualidad = Replay.carry_mensualidad

\* C2: in every reachable state, for a student with fecha_inicio_clases
\* set, fecha_fin is fecha_inicio_clases when mensualidades_canceladas is 0
\* and fecha_inicio_clases + 30 x mensualidades_canceladas days otherwise.
C2_FechaFinFuncion ==
    (cliente.existe /\ cliente.fecha_inicio_clases # None) =>
        cliente.fecha_fin =
            IF cliente.mensualidades_canceladas = 0
            THEN cliente.fecha_inicio_clases
            ELSE Some(cliente.fecha_inicio_clases[1]
                        + timedelta(30 * cliente.mensualidades_canceladas))

\* C3: every step that inserts or deletes a payment row leaves the stored
\* coverage fields equal to the full replay of the new payment set.
C3_PagoRecalcula ==
    [][pagos' # pagos =>
        cliente' = _recalcular_cobertura_cliente(cliente', curso', pagos', now')]_vars

\* C10: in every reachable state 0 <= carry_mensualidad < precio_mensual
\* of the student's course, also after the course's price is edited.
C10_CarryMenorQuePrecio ==
    (cliente.existe /\ tiene_curso(cliente, curso)) =>
        /\ 0 <= cliente.carry_mensualidad
        /\ cliente.carry_mensualidad < curso.precio_mensual

\* calcular_fecha_vencimiento(fecha_inicio_clases, mensualidades_ya_pagadas)
calcular_fecha_vencimiento(fi, m) ==
    IF m = 0 THEN fi ELSE fi + timedelta(m * 30)

\* a step of one of the three handlers that run the reconciliation; each
\* disjunct starts with what its handler leaves alone or does to the list
\* of payments, so that the steps of the other handlers are told apart
\* before the function is computed
PasoQueReconcilia ==
    \/ /\ Len(pagos') = Len(pagos) + 1
       /\ \E monto \in Montos, c \in Conceptos \cup {"otro"} : pago_nuevo(monto, c)
    \/ /\ Len(pagos') = Len(pagos) - 1
       /\ \E k \in 1..Len(pagos) : pago_eliminar(k)
    \/ /\ pagos' = pagos
       /\ curso' = curso
       /\ session' = session
       /\ \E fi \in {None} \cup {Some(f) : f \in FechasInicio},
             m \in {None} \cup {Some(k) : k \in MesesFormulario} : cliente_editar(fi, m)

\* C12: after every reconciliation that pago_nuevo, pago_eliminar or
\* cliente_editar (also when it changes fecha_inicio_clases) runs on a
\* student with a valid course and a start date, fecha_fin is the start
\* date when mensualidades_canceladas is 0 and the start date plus
\* 30 x mensualidades_canceladas days otherwise, whatever the carry and the
\* enrollment paid.
C12_FechaFinTrasReconciliar ==
    [][\/ SinCobertura(cliente', curso')
       \/ cliente'.fecha_fin =
              Some(calcular_fecha_vencimiento(cliente'.fecha_inicio_clases[1],
                                              cliente'.mensualidades_canceladas))
       \/ ~PasoQueReconcilia]_vars

\* a reconciled student with one period and a positive carry
C12_Witness ==
    /\ cliente.existe
    /\ Len(pagos) = 2
    /\ \A k \in 1..Len(pagos) : ~pagos[k].testing
    /\ cliente = Replay
    /\ cliente.mensualidades_canceladas = 1
    /\ cliente.carry_mensualidad > 0
    /\ cliente.fecha_fin = Some(cliente.fecha_inicio_clases[1] + timedelta(30))

\* the student after pago_nuevo registers the payment and pago_eliminar
\* then deletes that same payment
TrasRegistrarYEliminar(monto, concepto) ==
    LET pago == Pago(monto, concepto, Some(now), FALSE)
        registrado == _recalcular_cobertura_cliente(cliente, curso, Append(pagos, pago), now)
    IN _recalcular_cobertura_cliente(registrado, curso, pagos, now)

\* pago_nuevo accepts a payment for the student
AceptaPagos ==
    cliente.existe /\ tiene_curso(cliente, curso) /\ curso.precio_mensual > 0

\* C14: registering a payment and then deleting it returns
\* carry_mensualidad, abono_inscripcion, mensualidades_canceladas and
\* fecha_fin to the values stored before, for every amount and concept and
\* in every state the student can be in.
C14_RegistrarYEliminar ==
    AceptaPagos =>
        \A monto \in Montos, concepto \in Conceptos :
            TrasRegistrarYEliminar(monto, concepto) = cliente

\* the same round trip from the states whose stored fields equal the replay
C14_RegistrarYEliminarDesdeReplay ==
    cliente = Replay => C14_RegistrarYEliminar

(***************************************************************************)
(* Properties of concurrent payment requests (SpecConc)                    *)
(***************************************************************************)
\* C5: payment-mutating requests on one student are serialized: at most
\* one request holds an uncommitted recompute at a time, and once all have
\* committed the stored coverage fields equal the replay of the committed
\* payments.
C5_PeticionesSerializadas ==
    /\ Cardinality({r \in Reqs : EnVuelo(r)}) <= 1
    /\ (\A r \in Reqs : reqs[r].pc = "done") => cliente = Replay

\* the second half alone: the result after all requests have committed
C5_ResultadoFinal ==
    (\A r \in Reqs : reqs[r].pc = "done") => cliente = Replay

\* the result when the requests do not overlap at all
C5_SinSolape ==
    [][(\A r \in Reqs : reqs[r].pc \in {"start", "done"})
        => (\A r \in Reqs : reqs'[r].pc = "done" => cliente' = Replay')]_vars

(***************************************************************************)
(* Properties of the requests served one at a time (SpecTrans)             *)
(***************************************************************************)
\* a request that committed, with the payment set and the fields it wrote
Confirmo(r) ==
    /\ reqs[r].pc = "recalculated"
    /\ reqs'[r].pc = "done"
    /\ pagos' = Visibles(r)
    /\ cliente' = _recalcular_cobertura_cliente(cliente, curso, pagos', now)

\* C22: with the requests served one at a time, the payments and the four
\* fields of the student only change together, in the commit of a request,
\* which persists the request's insertion or deletion and the fields
\* reconciled from the resulting payments; a request that fails before its
\* commit leaves the payments and the fields as it loaded them; the email
\* step after the commit, sent or failed, changes neither.
C22_UnidadAtomica ==
    [][/\ (pagos' # pagos \/ cliente' # cliente) => \E r \in Reqs : Confirmo(r)
       /\ \A r \in Reqs :
             (reqs[r].pc # "failed" /\ reqs'[r].pc = "failed") =>
                 /\ pagos' = pagos
                 /\ cliente' = cliente
                 /\ cliente' = reqs[r].loaded
       /\ \A r \in Reqs :
             (reqs[r].pc = "done" /\ reqs'[r].pc \in {"mailed", "mail_failed"}) =>
                 /\ pagos' = pagos
                 /\ cliente' = cliente
       /\ \A r \in Reqs :
             (reqs[r].pc = "recalculated" /\ reqs'[r].pc = "done") => Confirmo(r)]_vars

\* one request failed after its flush, one insertion committed and its
\* email failed
C22_Witness ==
    \E r, q \in Reqs :
        /\ reqs[r].pc = "failed"
        /\ reqs[r].fecha # None
        /\ reqs[q].pc = "mail_failed"
        /\ Len(pagos) > 0

\* C24, the handler: pago_nuevo with an amount that is not positive creates
\* no payment and leaves the student as it was
C24_PagoNuevoRechaza ==
    [][(\E monto \in NoPositivos, c \in Conceptos \cup {"otro"} : pago_nuevo(monto, c))
          => UNCHANGED <<pagos, cliente>>]_vars

(***************************************************************************)
(* The status properties of Cliente, read at time t                        *)
(***************************************************************************)
\* Cliente.ha_iniciado_clases
ha_iniciado_clases(c, t) ==
    IF c.fecha_inicio_clases = None THEN TRUE ELSE t >= c.fecha_inicio_clases[1]

\* Cliente.dias_restantes: None, or the number of days
dias_restantes(c, t) ==
    IF c.fecha_fin = None THEN None
    ELSE IF c.fecha_inicio_clases # None /\ t < c.fecha_inicio_clases[1]
    THEN Some(Max(0, (c.fecha_fin[1] - c.fecha_inicio_clases[1]) \div 24))
    ELSE Some((c.fecha_fin[1] - t) \div 24)

\* mutant: the start of classes is not looked at
plan_vencido_sin_inicio(c, t) ==
    IF c.fecha_fin = None THEN FALSE ELSE t > c.fecha_fin[1]

\* Cliente.plan_vencido
plan_vencido(c, t) ==
    IF c.fecha_fin = None THEN FALSE
    ELSE IF c.fecha_inicio_clases # None /\ t < c.fecha_inicio_clases[1] THEN FALSE
    ELSE t > c.fecha_fin[1]

\* Cliente.estado_pago
estado_pago(c, t) ==
    IF c.fecha_fin = None \/ c.mensualidades_canceladas = 0 THEN "sin-cobertura"
    ELSE IF ~ha_iniciado_clases(c, t) THEN "pendiente-inicio"
    ELSE LET dias == dias_restantes(c, t) IN
         IF dias = None THEN "sin-cobertura"
         ELSE IF dias[1] < 0 THEN "vencido"
         ELSE IF dias[1] <= 7 THEN "por-vencer"
         ELSE "al-dia"

\* the times at which the properties of a student are read: now, and the
\* hours and days around its start date and its fecha_fin
TiemposLectura(c) ==
    {now}
      \cup (IF c.fecha_inicio_clases = None THEN {}
            ELSE {c.fecha_inicio_clases[1] + h : h \in {-1, 0, 1}})
      \cup (IF c.fecha_fin = None THEN {}
            ELSE {c.fecha_fin[1] + h : h \in {-24, -1, 0, 1, 24}})

\* C25: a student whose classes start in the future is never reported as
\* expired: plan_vencido is false and estado_pago is 'pendiente-inicio'
\* with a period paid and a fecha_fin, 'sin-cobertura' otherwise; for a
\* student who has started, estado_pago is 'vencido' exactly when
\* plan_vencido holds and mensualidades_canceladas > 0.
C25_NoVencidoAntesDeIniciar ==
    cliente.existe =>
        \A t \in TiemposLectura(cliente) :
            IF cliente.fecha_inicio_clases # None /\ t < cliente.fecha_inicio_clases[1]
            THEN /\ ~plan_vencido(cliente, t)
                 /\ estado_pago(cliente, t) =
                        IF cliente.mensualidades_canceladas > 0 /\ cliente.fecha_fin # None
                        THEN "pendiente-inicio" ELSE "sin-cobertura"
            ELSE estado_pago(cliente, t) = "vencido"
                    <=> (plan_vencido(cliente, t) /\ cliente.mensualidades_canceladas > 0)

\* a student who has not started, with a period and a fecha_fin in the past
C25_Witness ==
    /\ cliente.existe
    /\ cliente.fecha_inicio_clases # None
    /\ now < cliente.fecha_inicio_clases[1]
    /\ cliente.mensualidades_canceladas > 0
    /\ cliente.fecha_fin # None
    /\ cliente.fecha_fin[1] < now
    /\ estado_pago(cliente, now) = "pendiente-inicio"

====
